---------------------------- MODULE Spec2Model ----------------------------
(***************************************************************************)
(* Model of the classification and analytics core of src/c-pr.py:          *)
(*   detect_pr_type, detect_pr_tool  (classifier engine)                   *)
(*   analyze_prs_animated            (aggregation engine)                  *)
(*   calculate_productivity_scores   (productivity calculator)             *)
(*                                                                         *)
(* Text is modelled as a sequence of code points.  A code point is a       *)
(* one-character string for ASCII and a "U+xxxx" token otherwise, so that  *)
(* str.lower(), str.strip(), len() and the `in` substring test can be      *)
(* computed the way Python computes them.                                  *)
(***************************************************************************)
EXTENDS Integers, Sequences, FiniteSets, TLC

VARIABLES
  pr,          \* the record handed to detect_pr_type / detect_pr_tool
  pr_type,     \* pr["_detected_type"], NotRun before the call
  tool,        \* pr["_detected_tool"], NotRun before the call
  prs,         \* the record list handed to analyze_prs_animated
  pc,          \* position of analyze_prs_animated: "idle", "loop", "done"
  i,           \* number of records the loop of analyze_prs_animated has consumed
  now,         \* the last value datetime.now() returned
  merged, pending, closed, draft, stale,
  repo_counter, yearly, monthly, daily,   \* dicts, as insertion-ordered item lists
  pr_dates,    \* list of triples [date, state, merged]
  acceptance,  \* in hundredths of a percent (6000 is 60.0)
  top_repo,
  raised,      \* TRUE when an exception has escaped analyze_prs_animated
  score_pc,    \* position of calculate_productivity_scores: "idle", "loop", "done"
  score_i,     \* its loop variable i
  avg_time_diff,   \* hours, a fraction
  current_score,   \* a fraction
  dates, score_list,   \* the lists `dates` and `scores` it builds and returns
  score_raised,    \* TRUE when an exception has escaped it
  available,   \* number of pull requests the search API holds for the user
  fetch_pc,    \* position of fetch_all_prs_animated: "idle", "start", "loop",
               \* "done", "raised"
  page, all_prs, total_count, total_pages,   \* its local variables
  requested,   \* the requests it has made: [page, outcome], oldest first
  fetch_result,    \* the list it returned
  main_pc,     \* position of main: "idle", "top", "blocked", "menu", "scan",
               \* "info", "invalid", "returned", "raised"
  iterations,  \* iterations of the loop of main begun so far
  reported,    \* what the last rate limit request answered
  rate_ok,     \* what the last check_rate_limit call returned
  choice,      \* the last line read at the menu prompt
  menus,       \* menus shown in the current iteration
  scans,       \* calls of run_scan in the current iteration
  message, running, thread,   \* LoadingSpinner.message, .running and .thread
  final_message,   \* the argument of stop
  spin_pc,     \* position of the spinner thread: "unborn", "test", "write",
               \* "sleep", "exited"
  spin_i,      \* the local i of spin
  caller_pc,   \* position of the caller: "idle", "made", "started",
               \* "stopping" (in stop, before the join), "returned"
  stdout       \* what has been written to sys.stdout, oldest first

cvars == <<pr, pr_type, tool>>
avars == <<prs, pc, i, now, merged, pending, closed, draft, stale,
           repo_counter, yearly, monthly, daily, pr_dates, acceptance,
           top_repo, raised>>
svars == <<score_pc, score_i, avg_time_diff, current_score, dates, score_list,
           score_raised>>
fvars == <<available, fetch_pc, page, all_prs, total_count, total_pages,
           requested, fetch_result>>
mvars == <<main_pc, iterations, reported, rate_ok, choice, menus, scans>>
lvars == <<message, running, thread, final_message, spin_pc, spin_i, caller_pc,
           stdout>>
vars == <<cvars, avars, svars, fvars, mvars, lvars>>

----------------------------------------------------------------------------
(* Bounds of the model *)

MaxTitleWords == 2     \* words of a generated title
MaxBodyWords == 2      \* words of a generated body
MaxPRs == 3            \* records of a generated record list
MaxCountPRs == 5       \* records of a record list that varies the state only
MaxTotalCount == 201   \* pull requests the search API holds
MaxIterations == 3     \* iterations of the loop of main
MaxRemaining == 2      \* requests the rate limit answer leaves
MaxFrames == 11        \* frames the spinner thread writes
MaxStreakPRs == 5      \* records of a record list that repeats a creation time

----------------------------------------------------------------------------
(* Python values *)

\* None, as a value that is no text (its only element is no code point)
None == <<"<None>">>

\* the code points of an ASCII string literal
Chars(s) == [k \in 1..Len(s) |-> SubSeq(s, k, k)]

\* U+0130 LATIN CAPITAL LETTER I WITH DOT ABOVE and U+0307 COMBINING DOT ABOVE
DotI == "U+0130"
CombiningDot == "U+0307"

UpperCase == "ABCDEFGHIJKLMNOPQRSTUVWXYZ"
LowerCase == "abcdefghijklmnopqrstuvwxyz"

\* what str.lower() makes of one code point: a sequence of code points
\* (U+0130 is the code point whose lower case is two code points)
LowerChar(c) ==
  IF \E k \in 1..Len(UpperCase) : SubSeq(UpperCase, k, k) = c
    THEN LET k == CHOOSE n \in 1..Len(UpperCase) : SubSeq(UpperCase, n, n) = c
         IN <<SubSeq(LowerCase, k, k)>>
    ELSE IF c = DotI THEN <<"i", CombiningDot>>
    ELSE <<c>>

RECURSIVE Lower(_)
\* str.lower()
Lower(s) == IF s = <<>> THEN <<>> ELSE LowerChar(Head(s)) \o Lower(Tail(s))

WhiteSpace == {" ", "\t", "\n", "\r", "\f"}

RECURSIVE LStrip(_)
LStrip(s) == IF s # <<>> /\ Head(s) \in WhiteSpace THEN LStrip(Tail(s)) ELSE s

RECURSIVE RStrip(_)
RStrip(s) ==
  IF s # <<>> /\ s[Len(s)] \in WhiteSpace THEN RStrip(SubSeq(s, 1, Len(s) - 1)) ELSE s

\* str.strip()
Strip(s) == RStrip(LStrip(s))

\* the Python test `p in s` on two strings
In(p, s) ==
  \/ p = <<>>
  \/ \E k \in 1..(Len(s) - Len(p) + 1) :
       s[k] = p[1] /\ SubSeq(s, k, k + Len(p) - 1) = p

\* safe_str(value, default): the argument is None or a str
safe_str(value, default) == IF value = None THEN default ELSE value

----------------------------------------------------------------------------
(* The keyword tables, in declaration order (a dict iterates in insertion   *)
(* order).  The emoji prefix of each label is left out.  The table entry    *)
(* "empty_body" of "Git CLI + API" is read nowhere in the code.             *)

PR_TYPE_PATTERNS ==
  <<
  [name |-> "Bug Fix", title_weight |-> 2, body_weight |-> 1,
   keywords |-> <<"fix", "bug", "issue", "error", "crash", "broken", "patch", "hotfix",
                "resolve", "solving", "repair", "correct", "debug",
                "fault", "defect">>],
  [name |-> "Feature", title_weight |-> 2, body_weight |-> 1,
   keywords |-> <<"feature", "add", "new", "implement", "create", "introduce", "support",
                "enable", "allow", "capability", "functionality",
                "enhancement">>],
  [name |-> "Documentation", title_weight |-> 2, body_weight |-> 1,
   keywords |-> <<"doc", "readme", "documentation", "comment", "guide", "tutorial", "wiki",
                "changelog", "license", "contributing", "api doc", "jsdoc",
                "docstring", "typo in doc", "update readme">>],
  [name |-> "Refactor", title_weight |-> 2, body_weight |-> 1,
   keywords |-> <<"refactor", "restructure", "reorganize", "cleanup", "clean up",
                "improve code", "code quality", "simplify",
                "optimize code", "better structure", "rewrite",
                "modernize">>],
  [name |-> "Dependency", title_weight |-> 2, body_weight |-> 1,
   keywords |-> <<"dependency", "dependencies", "package", "npm", "pip", "yarn",
                "update package", "upgrade", "bump", "version bump",
                "security update", "dependabot", "renovate", "greenkeeper",
                "snyk">>],
  [name |-> "Test", title_weight |-> 2, body_weight |-> 1,
   keywords |-> <<"test", "testing", "spec", "unit test", "integration test", "e2e",
                "coverage", "jest", "pytest", "mocha", "cypress",
                "selenium", "test case", "test suite", "tdd", "bdd">>],
  [name |-> "Performance", title_weight |-> 2, body_weight |-> 1,
   keywords |-> <<"performance", "optimize", "speed", "faster", "efficient", "memory",
                "cache", "lazy load", "async", "parallel", "benchmark",
                "profiling", "reduce load", "improve speed">>],
  [name |-> "Style/Lint", title_weight |-> 2, body_weight |-> 1,
   keywords |-> <<"style", "lint", "format", "prettier", "eslint", "formatting",
                "code style", "indentation", "whitespace", "semicolon",
                "trailing", "black", "flake8", "pylint", "rubocop">>],
  [name |-> "Translation", title_weight |-> 2, body_weight |-> 1,
   keywords |-> <<"translation", "translate", "i18n", "l10n", "locale", "language",
                "internationalization", "localization", "multilingual",
                "lang">>],
  [name |-> "Config", title_weight |-> 2, body_weight |-> 1,
   keywords |-> <<"config", "configuration", "settings", "env", "environment", "ci/cd",
                "workflow", "github action", "travis", "jenkins", "docker",
                "kubernetes", "yaml", "json config">>],
  [name |-> "Security", title_weight |-> 2, body_weight |-> 1,
   keywords |-> <<"security", "vulnerability", "cve", "xss", "csrf", "injection", "auth",
                "authentication", "authorization", "encrypt", "ssl",
                "https", "sanitize", "escape", "secure">>],
  [name |-> "Deprecation", title_weight |-> 2, body_weight |-> 1,
   keywords |-> <<"deprecate", "remove", "delete", "drop support", "end of life",
                "obsolete", "legacy", "cleanup old", "remove unused">>]
  >>

TOOL_PATTERNS ==
  <<
  [name |-> "GitHub Web", is_default |-> TRUE,
   patterns |-> <<>>,
   body_hints |-> <<"<!-- -->", "## description", "## changes", "### checklist">>],
  [name |-> "GitHub CLI (gh)", is_default |-> FALSE,
   patterns |-> <<"created via gh cli", "gh pr create", "via github cli",
                "github.com/cli/cli">>,
   body_hints |-> <<>>],
  [name |-> "Git CLI + API", is_default |-> FALSE,
   patterns |-> <<>>,
   body_hints |-> <<>>],
  [name |-> "Dependabot", is_default |-> FALSE,
   patterns |-> <<"dependabot", "dependabot[bot]", "dependabot-preview">>,
   body_hints |-> <<"bumps", "from ", " to ", "release notes", "changelog", "commits">>],
  [name |-> "Renovate Bot", is_default |-> FALSE,
   patterns |-> <<"renovate", "renovate[bot]", "renovatebot">>,
   body_hints |-> <<"this pr contains", "renovate", "datasource", "package update">>],
  [name |-> "Snyk Bot", is_default |-> FALSE,
   patterns |-> <<"snyk", "snyk-bot", "snyk[bot]">>,
   body_hints |-> <<"snyk", "vulnerability", "security upgrade">>],
  [name |-> "Greenkeeper", is_default |-> FALSE,
   patterns |-> <<"greenkeeper", "greenkeeper[bot]">>,
   body_hints |-> <<"greenkeeper", "update", "version">>],
  [name |-> "ImgBot", is_default |-> FALSE,
   patterns |-> <<"imgbot", "imgbot[bot]">>,
   body_hints |-> <<"image", "optimize", "compression", "imgbot">>],
  [name |-> "All Contributors", is_default |-> FALSE,
   patterns |-> <<"allcontributors", "all-contributors">>,
   body_hints |-> <<"add", "contributor", "all-contributors">>],
  [name |-> "Release Bot", is_default |-> FALSE,
   patterns |-> <<"release-bot", "semantic-release", "release-please">>,
   body_hints |-> <<"release", "version", "changelog">>],
  [name |-> "GitHub Actions", is_default |-> FALSE,
   patterns |-> <<"github-actions", "github-actions[bot]">>,
   body_hints |-> <<"automated", "workflow", "action">>],
  [name |-> "GitHub Desktop", is_default |-> FALSE,
   patterns |-> <<"github desktop">>,
   body_hints |-> <<>>],
  [name |-> "VS Code", is_default |-> FALSE,
   patterns |-> <<"vscode", "vs code">>,
   body_hints |-> <<"vscode", "visual studio code">>],
  [name |-> "JetBrains IDE", is_default |-> FALSE,
   patterns |-> <<"intellij", "pycharm", "webstorm", "phpstorm", "idea">>,
   body_hints |-> <<"jetbrains", "intellij">>],
  [name |-> "GitKraken", is_default |-> FALSE,
   patterns |-> <<"gitkraken">>,
   body_hints |-> <<"gitkraken">>],
  [name |-> "Sourcetree", is_default |-> FALSE,
   patterns |-> <<"sourcetree">>,
   body_hints |-> <<"sourcetree">>],
  [name |-> "GitHub Codespaces", is_default |-> FALSE,
   patterns |-> <<"codespaces", "codespace">>,
   body_hints |-> <<"codespace", "github.dev">>],
  [name |-> "GitPod", is_default |-> FALSE,
   patterns |-> <<"gitpod">>,
   body_hints |-> <<"gitpod">>]
  >>

General == "General"
GitCliApi == "Git CLI + API"
GitHubWeb == "GitHub Web"

\* the tables with every keyword as code points
TypeTable ==
  [c \in DOMAIN PR_TYPE_PATTERNS |->
     [name |-> PR_TYPE_PATTERNS[c].name,
      title_weight |-> PR_TYPE_PATTERNS[c].title_weight,
      body_weight |-> PR_TYPE_PATTERNS[c].body_weight,
      keywords |-> [k \in DOMAIN PR_TYPE_PATTERNS[c].keywords |->
                      Chars(PR_TYPE_PATTERNS[c].keywords[k])]]]

ToolTable ==
  [t \in DOMAIN TOOL_PATTERNS |->
     [name |-> TOOL_PATTERNS[t].name,
      is_default |-> TOOL_PATTERNS[t].is_default,
      patterns |-> [k \in DOMAIN TOOL_PATTERNS[t].patterns |->
                      Chars(TOOL_PATTERNS[t].patterns[k])],
      body_hints |-> [k \in DOMAIN TOOL_PATTERNS[t].body_hints |->
                        Chars(TOOL_PATTERNS[t].body_hints[k])]]]

----------------------------------------------------------------------------
(* detect_pr_type *)

RECURSIVE KeywordScore(_, _, _, _)
\* the loop `for keyword in keywords` of detect_pr_type, from keyword k on
KeywordScore(config, k, title, body) ==
  IF k > Len(config.keywords) THEN 0
  ELSE (IF In(config.keywords[k], title) THEN config.title_weight ELSE 0)
     + (IF In(config.keywords[k], body) THEN config.body_weight ELSE 0)
     + KeywordScore(config, k + 1, title, body)

\* a faulty variant of KeepScore: a category is kept only from score 2 on
KeepScoreAboveOne(score) == score > 1

\* `if score > 0: scores[pr_type] = score`
KeepScore(score) == score > 0

RECURSIVE TypeScores(_, _, _)
\* the dict `scores` as the list of its items, in insertion order
TypeScores(c, title, body) ==
  IF c > Len(TypeTable) THEN <<>>
  ELSE LET score == KeywordScore(TypeTable[c], 1, title, body)
       IN (IF KeepScore(score)
             THEN <<[key |-> TypeTable[c].name, value |-> score]>>
             ELSE <<>>)
          \o TypeScores(c + 1, title, body)

\* a faulty variant of Better: a later item replaces the best one on a tie
BetterOrEqual(candidate, best) == candidate >= best

\* max() keeps the first of the maximal items: a later item replaces the
\* best one only when its key value is strictly greater
Better(candidate, best) == candidate > best

RECURSIVE MaxFrom(_, _, _)
MaxFrom(items, k, best) ==
  IF k > Len(items) THEN best
  ELSE MaxFrom(items, k + 1,
               IF Better(items[k].value, best.value) THEN items[k] ELSE best)

\* a faulty variant of DictMax: the first key, whatever the counts
DictFirstKey(items) == items[1].key

\* max(d, key=d.get) on a non-empty dict
DictMax(items) == MaxFrom(items, 2, items[1]).key

detect_pr_type(p) ==
  LET title == Lower(safe_str(p.title, <<>>))
      body == Lower(safe_str(p.body, <<>>))
      scores == TypeScores(1, title, body)
  IN IF scores # <<>> THEN DictMax(scores) ELSE General

----------------------------------------------------------------------------
(* detect_pr_tool *)

AnyIn(patterns, s) == \E k \in DOMAIN patterns : In(patterns[k], s)

\* `pr.get("user") or {}` followed by .get("login")
UserLogin(p) == IF p.user.present THEN p.user.login ELSE None

\* a faulty variant of ToolMatches: the body hints are not looked at
ToolMatchesPatterns(config, user, body) ==
  \/ AnyIn(config.patterns, user)
  \/ AnyIn(config.patterns, body)

\* one pass of the loop body for signature config: TRUE when it returns
ToolMatches(config, user, body) ==
  \/ AnyIn(config.patterns, user)
  \/ AnyIn(config.patterns, body)
  \/ AnyIn(config.body_hints, body)

RECURSIVE ToolScan(_, _, _)
\* the loop `for tool_name, config in TOOL_PATTERNS.items()` from entry t on;
\* the index of the entry it returns at, 0 when the loop ends without a return
ToolScan(t, user, body) ==
  IF t > Len(ToolTable) THEN 0
  ELSE IF ToolTable[t].is_default THEN ToolScan(t + 1, user, body)
  ELSE IF ToolMatches(ToolTable[t], user, body) THEN t
  ELSE ToolScan(t + 1, user, body)

ShortBodyLimit == 20

detect_pr_tool(p) ==
  LET body == Lower(safe_str(p.body, <<>>))
      user == Lower(safe_str(UserLogin(p), <<>>))
      found == ToolScan(1, user, body)
  IN IF found # 0 THEN ToolTable[found].name
     ELSE IF Len(Strip(body)) < ShortBodyLimit THEN GitCliApi
     ELSE GitHubWeb

----------------------------------------------------------------------------
(* datetime *)

Digits == "0123456789"

IsDigit(c) == \E d \in 1..Len(Digits) : SubSeq(Digits, d, d) = c

DigitValue(c) == (CHOOSE d \in 1..Len(Digits) : SubSeq(Digits, d, d) = c) - 1

AllDigits(s) == \A k \in DOMAIN s : IsDigit(s[k])

RECURSIVE Number(_)
\* int() of a non-empty digit string
Number(s) ==
  IF Len(s) = 1 THEN DigitValue(s[1])
  ELSE 10 * Number(SubSeq(s, 1, Len(s) - 1)) + DigitValue(s[Len(s)])

\* the slice s[:n]
Prefix(s, n) == SubSeq(s, 1, IF Len(s) < n THEN Len(s) ELSE n)

RECURSIVE Split(_, _)
\* s.split(sep) for a separator of one code point
Split(s, sep) ==
  IF \A k \in DOMAIN s : s[k] # sep THEN <<s>>
  ELSE LET k == CHOOSE n \in DOMAIN s : s[n] = sep /\ \A m \in 1..(n - 1) : s[m] # sep
       IN <<SubSeq(s, 1, k - 1)>> \o Split(SubSeq(s, k + 1, Len(s)), sep)

\* A strptime field of one or two digits with a value in lo..hi
\* (the directives %m, %H, %M, %S; %S also matches 60 and 61, which
\* datetime() then refuses)
FieldOK(f, lo, hi) ==
  /\ Len(f) \in {1, 2}
  /\ AllDigits(f)
  /\ Number(f) \in lo..hi

\* %d also matches a space followed by one digit
DayFieldOK(f) ==
  \/ FieldOK(f, 1, 31)
  \/ Len(f) = 2 /\ f[1] = " " /\ IsDigit(f[2]) /\ f[2] # "0"

DayValue(f) == IF f[1] = " " THEN DigitValue(f[2]) ELSE Number(f)

\* %Y is exactly four digits; datetime() refuses year 0
YearFieldOK(f) == Len(f) = 4 /\ AllDigits(f) /\ Number(f) >= 1

IsLeap(y) == y % 4 = 0 /\ (y % 100 # 0 \/ y % 400 = 0)

DaysInMonth(y, m) ==
  IF m = 2 THEN (IF IsLeap(y) THEN 29 ELSE 28)
  ELSE IF m \in {4, 6, 9, 11} THEN 30 ELSE 31

RECURSIVE DaysBeforeMonth(_, _)
DaysBeforeMonth(y, m) ==
  IF m = 1 THEN 0 ELSE DaysBeforeMonth(y, m - 1) + DaysInMonth(y, m - 1)

\* date.toordinal(): day 1 is 0001-01-01
Ordinal(y, m, d) ==
  365 * (y - 1) + ((y - 1) \div 4) - ((y - 1) \div 100) + ((y - 1) \div 400)
  + DaysBeforeMonth(y, m) + d

\* a datetime: its day ordinal and the second of the day
DateTime(y, m, d, H, M, S) == [ord |-> Ordinal(y, m, d), sec |-> 3600 * H + 60 * M + S]

\* TRUE when datetime.strptime(s, "%Y-%m-%d") returns (no ValueError)
ParsesDate(s) ==
  LET f == Split(s, "-")
  IN /\ Len(f) = 3
     /\ YearFieldOK(f[1])
     /\ FieldOK(f[2], 1, 12)
     /\ DayFieldOK(f[3])
     /\ DayValue(f[3]) <= DaysInMonth(Number(f[1]), Number(f[2]))

\* datetime.strptime(s, "%Y-%m-%d"), for s that parses
ParseDate(s) ==
  LET f == Split(s, "-")
  IN DateTime(Number(f[1]), Number(f[2]), DayValue(f[3]), 0, 0, 0)

\* TRUE when datetime.strptime(s, "%Y-%m-%dT%H:%M:%S") returns
ParsesDateTime(s) ==
  LET dt == Split(s, "T")
  IN /\ Len(dt) = 2
     /\ ParsesDate(dt[1])
     /\ LET t == Split(dt[2], ":")
        IN /\ Len(t) = 3
           /\ FieldOK(t[1], 0, 23)
           /\ FieldOK(t[2], 0, 59)
           /\ FieldOK(t[3], 0, 59)

\* datetime.strptime(s, "%Y-%m-%dT%H:%M:%S"), for s that parses
ParseDateTime(s) ==
  LET dt == Split(s, "T")
      t == Split(dt[2], ":")
  IN [ord |-> ParseDate(dt[1]).ord,
      sec |-> 3600 * Number(t[1]) + 60 * Number(t[2]) + Number(t[3])]

\* a < b on datetimes
Before(a, b) == a.ord < b.ord \/ (a.ord = b.ord /\ a.sec < b.sec)

\* (a - b).days: a timedelta is normalised to 0 <= seconds < 86400, so its
\* days round towards minus infinity
DeltaDays(a, b) == IF a.sec >= b.sec THEN a.ord - b.ord ELSE a.ord - b.ord - 1

----------------------------------------------------------------------------
(* dicts and lists *)

HasKey(d, key) == \E k \in DOMAIN d : d[k].key = key

\* a faulty variant of DictIncrement: a key that is present keeps its count
DictSetDefault(d, key) ==
  IF HasKey(d, key) THEN d ELSE Append(d, [key |-> key, value |-> 1])

\* d[key] = d.get(key, 0) + 1: a new key goes to the end of the dict
DictIncrement(d, key) ==
  IF HasKey(d, key)
    THEN [k \in DOMAIN d |->
            IF d[k].key = key THEN [d[k] EXCEPT !.value = @ + 1] ELSE d[k]]
    ELSE Append(d, [key |-> key, value |-> 1])

\* a faulty variant of ComesAfter: an item also passes the items of equal date
ComesStrictlyAfter(a, b) == Before(b.date, a.date)

\* in the sorted list item a stays behind item b, which came before it in the
\* list, unless a's key is smaller (list.sort is stable)
ComesAfter(a, b) == ~Before(a.date, b.date)

RECURSIVE Insert(_, _)
\* x put into the sorted list s, x having come after the items of s
Insert(s, x) ==
  IF s = <<>> THEN <<x>>
  ELSE IF ComesAfter(x, s[Len(s)]) THEN Append(s, x)
  ELSE Append(Insert(SubSeq(s, 1, Len(s) - 1), x), s[Len(s)])

RECURSIVE SortByDate(_)
\* list.sort(key=lambda x: x["date"])
SortByDate(s) ==
  IF s = <<>> THEN <<>>
  ELSE Insert(SortByDate(SubSeq(s, 1, Len(s) - 1)), s[Len(s)])

----------------------------------------------------------------------------
(* analyze_prs_animated *)

Open == Chars("open")
Closed == Chars("closed")
UnknownState == Chars("unknown")
UnknownRepo == Chars("unknown/unknown")
NoRepositories == Chars("No repositories")
EpochStart == Chars("1970-01-01T00:00:00Z")

\* Python truth of a value that is None or a str
Truthy(v) == v # None /\ v # <<>>

\* `pr.get("pull_request") or {}` followed by .get("merged_at")
MergedAt(p) == IF p.pull_request.present THEN p.pull_request.merged_at ELSE None

\* the repository key of a record
RepoOf(p) ==
  LET repo_url == safe_str(p.repository_url, <<>>)
      parts == Split(repo_url, "/")
  IN IF repo_url # <<>>
       THEN IF Len(parts) >= 2
              THEN parts[Len(parts) - 1] \o <<"/">> \o parts[Len(parts)]
              ELSE UnknownRepo
       ELSE UnknownRepo

CreatedAt(p) == safe_str(p.created_at, EpochStart)

StateOf(p) == safe_str(p.state, UnknownState)

\* a faulty variant of TryTriple: the failed parse is not caught
TryTripleUncaught(created_at) ==
  IF ParsesDateTime(Prefix(created_at, 19)) THEN "append" ELSE "raise"

\* the try block that appends to pr_dates: what it ends in.  The bare
\* `except: pass` catches whatever strptime raises.
TryTriple(created_at) ==
  IF ParsesDateTime(Prefix(created_at, 19)) THEN "append" ELSE "pass"

StaleDays == 180

\* a faulty variant of OlderThan: the threshold day itself counts
NotYoungerThan(days, limit) == days >= limit

\* `(datetime.now() - created_date).days > 180`
OlderThan(days, limit) == days > limit

\* TRUE when the record's branch `state == "open"` gets to call datetime.now()
ReadsClock(p) == StateOf(p) = Open /\ ParsesDate(Prefix(CreatedAt(p), 10))

\* the stale test of an open record; a ValueError of strptime is passed over
IsStale(p, clock) ==
  /\ ParsesDate(Prefix(CreatedAt(p), 10))
  /\ OlderThan(DeltaDays(clock, ParseDate(Prefix(CreatedAt(p), 10))), StaleDays)

Bump(flag) == IF flag THEN 1 ELSE 0

\* a faulty variant of CountsPending: every state but "closed" is pending
CountsNotClosed(state) == state # Closed

\* `if state == "open"`: pending += 1
CountsPending(state) == state = Open

\* `elif state == "closed"` with a true `pr_data.get("merged_at")`: merged += 1
CountsMerged(state, merged_at) == state = Closed /\ Truthy(merged_at)

\* a faulty variant of CountsClosed: the merge time is not looked at
CountsEveryClosed(state, merged_at) == state = Closed

\* `elif state == "closed"` and the else branch: closed += 1
CountsClosed(state, merged_at) == state = Closed /\ ~Truthy(merged_at)

\* one pass of the loop body over record p, datetime.now() returning clock;
\* acc holds the locals of analyze_prs_animated
LoopBody(acc, p, clock) ==
  LET created_at == CreatedAt(p)
      state == StateOf(p)
      outcome == TryTriple(created_at)
      triple == [date |-> ParseDateTime(Prefix(created_at, 19)),
                 state |-> state,
                 merged |-> MergedAt(p) # None]
  IN IF outcome = "raise" THEN [acc EXCEPT !.raised = TRUE]
     ELSE
       [repo_counter |-> DictIncrement(acc.repo_counter, RepoOf(p)),
        yearly |-> DictIncrement(acc.yearly, Prefix(created_at, 4)),
        monthly |-> DictIncrement(acc.monthly, Prefix(created_at, 7)),
        daily |-> DictIncrement(acc.daily, Prefix(created_at, 10)),
        draft |-> acc.draft + Bump(p.draft),
        pr_dates |-> IF outcome = "append" THEN Append(acc.pr_dates, triple)
                     ELSE acc.pr_dates,
        pending |-> acc.pending + Bump(CountsPending(state)),
        stale |-> acc.stale + Bump(CountsPending(state) /\ IsStale(p, clock)),
        merged |-> acc.merged + Bump(CountsMerged(state, MergedAt(p))),
        closed |-> acc.closed + Bump(CountsClosed(state, MergedAt(p))),
        raised |-> acc.raised]

\* the locals of analyze_prs_animated after `pr_dates = []`
EmptyAcc ==
  [merged |-> 0, pending |-> 0, closed |-> 0, draft |-> 0, stale |-> 0,
   repo_counter |-> <<>>, yearly |-> <<>>, monthly |-> <<>>, daily |-> <<>>,
   pr_dates |-> <<>>, raised |-> FALSE]

Acc ==
  [merged |-> merged, pending |-> pending, closed |-> closed, draft |-> draft,
   stale |-> stale, repo_counter |-> repo_counter, yearly |-> yearly,
   monthly |-> monthly, daily |-> daily, pr_dates |-> pr_dates, raised |-> raised]

\* a faulty variant of Total: closed records left out of the denominator
TotalWithoutClosed(m, p, c) == m + p

\* `total = merged + pending + closed`
Total(m, p, c) == m + p + c

\* round(x, 2) of the fraction 100 * num / den, in hundredths; a tie goes to
\* the even hundredth
Round2(num, den) ==
  LET q == (10000 * num) \div den
      r == (10000 * num) % den
  IN IF 2 * r < den THEN q
     ELSE IF 2 * r > den THEN q + 1
     ELSE IF q % 2 = 0 THEN q ELSE q + 1

\* a faulty variant of Acceptance: nothing submitted counts as nothing rejected
AcceptanceFull(m, total) == IF total > 0 THEN Round2(m, total) ELSE 10000

\* `round((merged / total) * 100, 2) if total > 0 else 0`
Acceptance(m, total) == IF total > 0 THEN Round2(m, total) ELSE 0

\* `max(repo_counter, key=repo_counter.get)` or the sentinel
TopRepo(counter) == IF counter # <<>> THEN DictMax(counter) ELSE NoRepositories

\* the values datetime.now() can return
Moments ==
  {DateTime(2024, 6, 29, 1, 0, 0),
   DateTime(2024, 6, 29, 23, 30, 0),
   DateTime(2024, 6, 30, 1, 0, 0)}

\* the clock does not go back
ClockAfter(t) == {m \in Moments : ~Before(m, t)}

\* one iteration of `for i, pr in enumerate(prs)`
AnalyzeStep ==
  /\ pc = "loop"
  /\ i < Len(prs)
  /\ \E clock \in (IF ReadsClock(prs[i + 1]) THEN ClockAfter(now) ELSE {now}) :
       \E r \in {LoopBody(Acc, prs[i + 1], clock)} :
          /\ now' = clock
          /\ i' = i + 1
          /\ merged' = r.merged
          /\ pending' = r.pending
          /\ closed' = r.closed
          /\ draft' = r.draft
          /\ stale' = r.stale
          /\ repo_counter' = r.repo_counter
          /\ yearly' = r.yearly
          /\ monthly' = r.monthly
          /\ daily' = r.daily
          /\ pr_dates' = r.pr_dates
          /\ raised' = r.raised
          /\ pc' = IF r.raised THEN "done" ELSE "loop"
  /\ UNCHANGED <<prs, acceptance, top_repo, cvars, svars, fvars, mvars, lvars>>

\* the code after the loop, up to the return
AnalyzeFinish ==
  /\ pc = "loop"
  /\ i = Len(prs)
  /\ acceptance' = Acceptance(merged, Total(merged, pending, closed))
  /\ top_repo' = TopRepo(repo_counter)
  /\ pr_dates' = SortByDate(pr_dates)
  /\ pc' = "done"
  /\ UNCHANGED <<prs, i, now, merged, pending, closed, draft, stale,
                 repo_counter, yearly, monthly, daily, raised, cvars, svars, fvars, mvars, lvars>>

NextAnalyze == AnalyzeStep \/ AnalyzeFinish

----------------------------------------------------------------------------
(* Python floats, modelled as exact fractions [num, den] in lowest terms    *)
(* with den > 0: the arithmetic of calculate_productivity_scores is real-   *)
(* valued, and no rounding of the binary representation is modelled.        *)

RECURSIVE GCD(_, _)
GCD(a, b) == IF b = 0 THEN a ELSE GCD(b, a % b)

Abs(x) == IF x < 0 THEN -x ELSE x

\* n / d, for d # 0
Fraction(n, d) ==
  LET g == GCD(Abs(n), Abs(d))
      s == IF d < 0 THEN -1 ELSE 1
  IN [num |-> s * (n \div g), den |-> s * (d \div g)]

Real(n) == [num |-> n, den |-> 1]

\* the operations cancel common factors before they multiply, which keeps
\* the intermediate products small
Plus(a, b) ==
  LET g == GCD(a.den, b.den)
  IN Fraction(a.num * (b.den \div g) + b.num * (a.den \div g),
              (a.den \div g) * b.den)
Minus(a, b) == Plus(a, [num |-> -b.num, den |-> b.den])
Times(a, b) ==
  LET g == GCD(Abs(a.num), b.den)
      h == GCD(Abs(b.num), a.den)
  IN [num |-> (a.num \div g) * (b.num \div h),
      den |-> (a.den \div h) * (b.den \div g)]
\* a / b, for b # 0
Over(a, b) ==
  Times(a, IF b.num < 0 THEN [num |-> -b.den, den |-> -b.num]
           ELSE [num |-> b.den, den |-> b.num])
AbsReal(a) == [num |-> Abs(a.num), den |-> a.den]
Less(a, b) ==
  LET g == GCD(a.den, b.den)
  IN a.num * (b.den \div g) < b.num * (a.den \div g)

\* min(a, b) and max(a, b) of Python: the first argument unless the second
\* is strictly smaller, respectively larger
Min(a, b) == IF Less(b, a) THEN b ELSE a
Max(a, b) == IF Less(a, b) THEN b ELSE a

----------------------------------------------------------------------------
(* calculate_productivity_scores *)

\* `(later - earlier).total_seconds() / 3600`
Hours(later, earlier) ==
  Fraction((later.ord - earlier.ord) * 86400 + (later.sec - earlier.sec), 3600)

\* a faulty variant of TooFew: a list of two triples is refused as well
TooFewBelowThree(list) == Len(list) < 3

\* `not pr_dates or len(pr_dates) < 2`
TooFew(list) == list = <<>> \/ Len(list) < 2

\* the list time_diffs: the gap before each triple but the first
TimeDiffs(list) ==
  [k \in 1..(Len(list) - 1) |-> Hours(list[k + 1].date, list[k].date)]

RECURSIVE Sum(_)
Sum(s) == IF s = <<>> THEN Real(0) ELSE Plus(s[1], Sum(Tail(s)))

\* `sum(time_diffs) / len(time_diffs)`
Average(time_diffs) == Over(Sum(time_diffs), Real(Len(time_diffs)))

\* a faulty variant of SpeedDenominator: the average gap itself
SpeedDenominatorAverage(avg) == avg

\* `max(avg_time_diff, 1)`
SpeedDenominator(avg) == Max(avg, Real(1))

\* a faulty variant of SpeedTerm: the two caps are exchanged
SpeedTermCapsExchanged(time_diff, avg) ==
  IF Less(time_diff, avg)
  THEN LET speed_factor == Over(Minus(avg, time_diff), SpeedDenominator(avg))
       IN Min(Times(speed_factor, Real(15)), Real(15))
  ELSE LET speed_factor == Over(Minus(time_diff, avg), SpeedDenominator(avg))
       IN Minus(Real(0), Min(Times(speed_factor, Real(10)), Real(10)))

\* the speed term of score_change; the denominator is not zero
SpeedTerm(time_diff, avg) ==
  IF Less(time_diff, avg)
  THEN LET speed_factor == Over(Minus(avg, time_diff), SpeedDenominator(avg))
       IN Min(Times(speed_factor, Real(15)), Real(10))
  ELSE LET speed_factor == Over(Minus(time_diff, avg), SpeedDenominator(avg))
       IN Minus(Real(0), Min(Times(speed_factor, Real(10)), Real(15)))

\* a faulty variant of OutcomeTerm: a merged triple of state "closed" gets
\* both adjustments
OutcomeTermBoth(triple) ==
  Plus(IF triple.merged THEN Real(5) ELSE Real(0),
       IF triple.state = Closed THEN Real(-3) ELSE Real(0))

\* the outcome term of score_change
OutcomeTerm(triple) ==
  IF triple.merged THEN Real(5)
  ELSE IF triple.state = Closed THEN Real(-3)
  ELSE Real(0)

\* a faulty variant of ConsistencyBonus: the comparison is not strict
ConsistencyBonusAtMost(list, k, time_diff, avg) ==
  IF k >= 2
  THEN LET prev_diff == Hours(list[k].date, list[k - 1].date)
       IN IF ~Less(Times(avg, Fraction(3, 10)), AbsReal(Minus(time_diff, prev_diff)))
          THEN Real(2) ELSE Real(0)
  ELSE Real(0)

\* the consistency bonus of score_change, for the triple at Python index k
ConsistencyBonus(list, k, time_diff, avg) ==
  IF k >= 2
  THEN LET prev_diff == Hours(list[k].date, list[k - 1].date)
       IN IF Less(AbsReal(Minus(time_diff, prev_diff)), Times(avg, Fraction(3, 10)))
          THEN Real(2) ELSE Real(0)
  ELSE Real(0)

\* a faulty variant of Clamp: the upper bound is left out
ClampBelow(score) == Max(Real(5), score)

\* `max(5, min(95, current_score))`
Clamp(score) == Max(Real(5), Min(Real(95), score))

\* a faulty variant of Multiplier: the rate 0 is not set apart
MultiplierOfRate(rate) == Fraction(rate, 10000)

\* a faulty variant of Multiplier: the rate is never read
MultiplierHalf(rate) == Fraction(1, 2)

\* `acceptance_rate / 100 if acceptance_rate > 0 else 0.5`; rate is in
\* hundredths of a percent
Multiplier(rate) == IF rate > 0 THEN Fraction(rate, 10000) ELSE Fraction(1, 2)

\* a faulty variant of Rescale: the multiplier is taken off
RescaleInverted(s, multiplier) ==
  Times(s, Minus(Fraction(1, 2), Times(Fraction(1, 2), multiplier)))

\* a faulty variant of Rescale: the parentheses are left out
RescaleUnparenthesised(s, multiplier) ==
  Plus(Times(s, Fraction(1, 2)), Times(Fraction(1, 2), multiplier))

\* `s * (0.5 + 0.5 * acceptance_multiplier)`
Rescale(s, multiplier) ==
  Times(s, Plus(Fraction(1, 2), Times(Fraction(1, 2), multiplier)))

\* the call `calculate_productivity_scores(pr_dates, stats["acceptance"])`,
\* up to the loop that builds the scores
ScoreStart ==
  /\ pc = "done"
  /\ ~raised
  /\ score_pc = "idle"
  /\ IF TooFew(pr_dates) \/ TimeDiffs(pr_dates) = <<>>
     THEN /\ score_pc' = "done"
          /\ dates' = <<>>
          /\ score_list' = <<>>
          /\ UNCHANGED <<score_i, avg_time_diff, current_score>>
     ELSE /\ score_pc' = "loop"
          /\ avg_time_diff' = Average(TimeDiffs(pr_dates))
          /\ current_score' = Real(50)
          /\ dates' = <<pr_dates[1].date>>
          /\ score_list' = <<Real(50)>>
          /\ score_i' = 1
  /\ UNCHANGED <<score_raised, cvars, avars, fvars, mvars, lvars>>

\* one iteration of `for i in range(1, len(pr_dates))`
ScoreStep ==
  /\ score_pc = "loop"
  /\ score_i < Len(pr_dates)
  /\ \E triple \in {pr_dates[score_i + 1]},
        time_diff \in {Hours(pr_dates[score_i + 1].date, pr_dates[score_i].date)} :
       IF SpeedDenominator(avg_time_diff) = Real(0)
       THEN /\ score_raised' = TRUE
            /\ score_pc' = "done"
            /\ UNCHANGED <<score_i, current_score, dates, score_list>>
       ELSE \E score_change \in
                 {Plus(Plus(SpeedTerm(time_diff, avg_time_diff), OutcomeTerm(triple)),
                       ConsistencyBonus(pr_dates, score_i, time_diff, avg_time_diff))} :
              \E score \in {Clamp(Plus(current_score, score_change))} :
                 /\ current_score' = score
                 /\ dates' = Append(dates, triple.date)
                 /\ score_list' = Append(score_list, score)
                 /\ score_i' = score_i + 1
                 /\ UNCHANGED <<score_pc, score_raised>>
  /\ UNCHANGED <<avg_time_diff, cvars, avars, fvars, mvars, lvars>>

\* the rescale after the loop, and the return
ScoreFinish ==
  /\ score_pc = "loop"
  /\ score_i = Len(pr_dates)
  /\ score_list' = [k \in 1..Len(score_list) |->
                      Rescale(score_list[k], Multiplier(acceptance))]
  /\ score_pc' = "done"
  /\ UNCHANGED <<score_i, avg_time_diff, current_score, dates, score_raised,
                 cvars, avars, fvars, mvars, lvars>>

NextScores == ScoreStart \/ ScoreStep \/ ScoreFinish

----------------------------------------------------------------------------
(* categorize_prs_animated: the two calls of its loop body *)

NotRun == "<not run>"

DetectType ==
  /\ pr_type = NotRun
  /\ pr_type' = detect_pr_type(pr)
  /\ UNCHANGED <<pr, tool, avars, svars, fvars, mvars, lvars>>

DetectTool ==
  /\ pr_type # NotRun
  /\ tool = NotRun
  /\ tool' = detect_pr_tool(pr)
  /\ UNCHANGED <<pr, pr_type, avars, svars, fvars, mvars, lvars>>

NextClassify == DetectType \/ DetectTool

----------------------------------------------------------------------------
(* fetch_all_prs_animated and the search API it pages through *)

PerPage == 100     \* per_page=100 of the request, and the test `len(items) < 100`

\* the outcomes of one request: the API serves the page, answers with an HTTP
\* or connection error, or answers with the JSON value null
Outcomes == {"served", "error", "null"}

\* the items of page p of a search that matches n pull requests, numbered from 1
ItemsOfPage(n, p) ==
  LET before == PerPage * (p - 1)
      count == IF n - before >= PerPage THEN PerPage
               ELSE IF n > before THEN n - before ELSE 0
  IN [k \in 1 .. count |-> before + k]

\* make_api_request(url, token) for page p: the pair (data, error), data being
\* the decoded answer; an exception of the request becomes the error
make_api_request(outcome, n, p) ==
  CASE outcome = "served" ->
         [has_data |-> TRUE, error |-> FALSE, total_count |-> n, items |-> ItemsOfPage(n, p)]
    [] outcome = "error" ->
         [has_data |-> FALSE, error |-> TRUE, total_count |-> 0, items |-> <<>>]
    [] outcome = "null" ->
         [has_data |-> FALSE, error |-> FALSE, total_count |-> 0, items |-> <<>>]

\* (total_count + 99) // 100
TotalPages(count) == (count + 99) \div 100

FailedOnError(response) == response.error

\* `error or not data` of the loop
Failed(response) == response.error \/ ~response.has_data

\* the first request, which reads total_count only
FetchFirst ==
  /\ fetch_pc = "start"
  /\ \E outcome \in Outcomes :
       \E response \in {make_api_request(outcome, available, 1)} :
         /\ requested' = Append(requested, [page |-> 1, outcome |-> outcome])
         /\ IF response.error \/ ~response.has_data
            THEN /\ fetch_pc' = "done"
                 /\ fetch_result' = <<>>
                 /\ UNCHANGED <<total_count, total_pages>>
            ELSE /\ total_count' = response.total_count
                 /\ IF response.total_count = 0
                    THEN /\ fetch_pc' = "done"
                         /\ fetch_result' = <<>>
                         /\ UNCHANGED total_pages
                    ELSE /\ total_pages' = TotalPages(response.total_count)
                         /\ fetch_pc' = "loop"
                         /\ UNCHANGED fetch_result
  /\ UNCHANGED <<available, page, all_prs, cvars, avars, svars, mvars, lvars>>

\* one iteration of `while True`, and the return when the iteration breaks
FetchPage ==
  /\ fetch_pc = "loop"
  /\ \E outcome \in Outcomes :
       \E response \in {make_api_request(outcome, available, page)} :
         /\ requested' = Append(requested, [page |-> page, outcome |-> outcome])
         /\ IF Failed(response)
            THEN /\ fetch_pc' = "done"
                 /\ fetch_result' = all_prs
                 /\ UNCHANGED <<page, all_prs>>
            ELSE IF ~response.has_data
            THEN \* data.get on None
                 /\ fetch_pc' = "raised"
                 /\ UNCHANGED <<page, all_prs, fetch_result>>
            ELSE IF response.items = <<>>
            THEN /\ fetch_pc' = "done"
                 /\ fetch_result' = all_prs
                 /\ UNCHANGED <<page, all_prs>>
            ELSE /\ all_prs' = all_prs \o response.items
                 /\ IF Len(response.items) < PerPage
                    THEN /\ fetch_pc' = "done"
                         /\ fetch_result' = all_prs'
                         /\ UNCHANGED page
                    ELSE /\ page' = page + 1
                         /\ UNCHANGED <<fetch_pc, fetch_result>>
  /\ UNCHANGED <<available, total_count, total_pages, cvars, avars, svars, mvars, lvars>>

NextFetch == FetchFirst \/ FetchPage

----------------------------------------------------------------------------
(* main and check_rate_limit *)

RateLimitIgnored(answer) == TRUE

\* check_rate_limit(token), as a function of what the rate limit request
\* answered: `remaining > 0` for an answer that carries data, True otherwise
check_rate_limit(answer) ==
  IF answer.answered THEN answer.remaining > 0 ELSE TRUE

\* the head of an iteration of `while True`: the header, check_rate_limit and,
\* by its result, the message of the exhausted limit or the menu; the
\* iteration then waits in input()
MainRateLimit ==
  /\ main_pc = "top"
  /\ iterations < MaxIterations
  /\ iterations' = iterations + 1
  /\ scans' = 0
  /\ \E answer \in {[answered |-> FALSE, remaining |-> 0]}
                    \cup {[answered |-> TRUE, remaining |-> r] : r \in 0 .. MaxRemaining} :
       /\ reported' = answer
       /\ rate_ok' = check_rate_limit(answer)
       /\ IF ~rate_ok'
          THEN main_pc' = "blocked" /\ menus' = 0
          ELSE main_pc' = "menu" /\ menus' = 1
  /\ UNCHANGED <<choice, cvars, avars, svars, fvars, lvars>>

\* the line read at the menu prompt and the branch it selects; input() may
\* also raise (end of input, an interrupt), which leaves main
MainChoose ==
  /\ main_pc = "menu"
  /\ \/ \E line \in {Chars("1"), Chars(" 2"), Chars("3 "), Chars("4"), Chars(" 4 "),
                       Chars("5"), Chars("14"), <<>>} :
          /\ choice' = Strip(line)
          /\ main_pc' = CASE choice' \in {Chars("1"), Chars("2")} -> "scan"
                          [] choice' = Chars("3") -> "info"
                          [] choice' = Chars("4") -> "returned"
                          [] OTHER -> "invalid"
          /\ scans' = IF choice' \in {Chars("1"), Chars("2")} THEN 1 ELSE 0
     \/ main_pc' = "raised" /\ UNCHANGED <<choice, scans>>
  /\ UNCHANGED <<iterations, reported, rate_ok, menus, cvars, avars, svars, fvars, lvars>>

\* the end of an iteration that goes round again: run_scan returns, or the
\* "Press Enter" input() returns (`continue` after the exhausted limit, the
\* end of the loop body otherwise); either may raise instead
MainContinue ==
  /\ main_pc \in {"blocked", "scan", "info", "invalid"}
  /\ main_pc' \in {"top", "raised"}
  /\ UNCHANGED <<iterations, reported, rate_ok, choice, menus, scans,
                 cvars, avars, svars, fvars, lvars>>

NextMain == MainRateLimit \/ MainChoose \/ MainContinue

----------------------------------------------------------------------------
(* LoadingSpinner: the caller of start and stop, and the thread running spin *)

SpinnerChars == 10     \* len(self.spinner_chars)

\* start(): the flag is set before the thread exists
start ==
  /\ caller_pc = "made"
  /\ running' = TRUE
  /\ thread' = TRUE
  /\ spin_pc' = "test"
  /\ caller_pc' = "started"
  /\ UNCHANGED <<message, final_message, spin_i, stdout, cvars, avars, svars, fvars, mvars>>

\* stop(final_message), up to the join
stop ==
  /\ caller_pc = "started"
  /\ final_message' \in {None, <<>>, Chars("ok")}
  /\ running' = FALSE
  /\ caller_pc' = "stopping"
  /\ UNCHANGED <<message, thread, spin_pc, spin_i, stdout, cvars, avars, svars, fvars, mvars>>

StopWithoutJoin ==
  /\ caller_pc = "stopping"
  /\ stdout' = Append(stdout, [kind |-> "final", glyph |-> 0, text |-> message])
  /\ caller_pc' = "returned"
  /\ UNCHANGED <<message, running, thread, final_message, spin_pc, spin_i,
                 cvars, avars, svars, fvars, mvars>>

\* the rest of stop: thread.join() returns once the thread has ended, then the
\* final message is written
StopJoin ==
  /\ caller_pc = "stopping"
  /\ thread => spin_pc = "exited"
  /\ stdout' = Append(stdout,
                      [kind |-> "final", glyph |-> 0,
                       text |-> IF final_message # None /\ final_message # <<>>
                                THEN final_message
                                ELSE message \o Chars(" - Done!")])
  /\ caller_pc' = "returned"
  /\ UNCHANGED <<message, running, thread, final_message, spin_pc, spin_i,
                 cvars, avars, svars, fvars, mvars>>

\* the thread evaluates `while self.running`
SpinTest ==
  /\ spin_pc = "test"
  /\ running => spin_i < MaxFrames
  /\ spin_pc' = IF running THEN "write" ELSE "exited"
  /\ UNCHANGED <<message, running, thread, final_message, spin_i, caller_pc, stdout,
                 cvars, avars, svars, fvars, mvars>>

\* the thread writes a frame and flushes
SpinWrite ==
  /\ spin_pc = "write"
  /\ stdout' = Append(stdout,
                      [kind |-> "frame", glyph |-> spin_i % SpinnerChars, text |-> message])
  /\ spin_pc' = "sleep"
  /\ UNCHANGED <<message, running, thread, final_message, spin_i, caller_pc,
                 cvars, avars, svars, fvars, mvars>>

\* time.sleep(0.1) returns, and i += 1
SpinSleep ==
  /\ spin_pc = "sleep"
  /\ spin_i' = spin_i + 1
  /\ spin_pc' = "test"
  /\ UNCHANGED <<message, running, thread, final_message, caller_pc, stdout,
                 cvars, avars, svars, fvars, mvars>>

NextSpinner == start \/ stop \/ StopJoin \/ SpinTest \/ SpinWrite \/ SpinSleep

----------------------------------------------------------------------------
(* The records the specifications start from *)

RECURSIVE Texts(_, _)
\* the texts made of at most n words
Texts(words, n) ==
  IF n = 0 THEN {<<>>}
  ELSE LET shorter == Texts(words, n - 1)
       IN shorter \cup {t \o w : t \in shorter, w \in words}

\* the lists of at most n records of S
Lists(S, n) == UNION {[1..k -> S] : k \in 0..n}

NoUser == [present |-> FALSE, login |-> None]
User(login) == [present |-> TRUE, login |-> login]
NoPullRequest == [present |-> FALSE, merged_at |-> None]
PullRequest(merged_at) == [present |-> TRUE, merged_at |-> merged_at]

BasePR ==
  [title |-> None, body |-> None, user |-> NoUser,
   repository_url |-> Chars("https://api.github.com/repos/octo/app"),
   created_at |-> Chars("2024-03-21T09:30:00Z"),
   state |-> Open, draft |-> FALSE, pull_request |-> PullRequest(None)]

TitleWords ==
  {Chars("Fix "), Chars("add "), Chars("Testing "), Chars("docs "),
   Chars("WIP "), <<DotI>>}

TypeBodies ==
  {None, <<>>, Chars("Fix"), Chars("adds a new test"), Chars("see the guide"),
   Chars("closes #12")}

BodyWords ==
  {Chars("work in progress.."), Chars("small tweak of menu"), Chars("x"),
   Chars(" "), <<DotI>>, Chars("Bumps "), Chars("renovate")}

Users ==
  {NoUser, User(None), User(Chars("octocat")), User(Chars("Renovate[bot]")),
   User(Chars("dependabot[bot]")), User(Chars("snyk-bot"))}

TypeRecords ==
  {[BasePR EXCEPT !.title = t, !.body = b] :
     t \in Texts(TitleWords, MaxTitleWords) \cup {None}, b \in TypeBodies}

ToolRecords ==
  {[BasePR EXCEPT !.body = b, !.user = u] :
     b \in Texts(BodyWords, MaxBodyWords) \cup {None}, u \in Users}

\* records that differ in state, merge time and draft flag
CountRecords ==
  {BasePR,
   [BasePR EXCEPT !.draft = TRUE],
   [BasePR EXCEPT !.state = Closed,
                  !.pull_request = PullRequest(Chars("2024-03-22T10:00:00Z"))],
   [BasePR EXCEPT !.state = Closed],
   [BasePR EXCEPT !.state = None, !.pull_request = NoPullRequest, !.draft = TRUE]}

\* records that differ in creation time
DateRecords ==
  {[BasePR EXCEPT !.created_at = Chars("2024-01-01T23:00:00Z")],
   [BasePR EXCEPT !.created_at = Chars("2023-12-12T08:00:00Z")],
   BasePR,
   [BasePR EXCEPT !.created_at = None],
   [BasePR EXCEPT !.created_at = Chars("2024-01-01")],
   [BasePR EXCEPT !.created_at = Chars("2024-02-30T10:00:00Z")],
   [BasePR EXCEPT !.created_at = Chars("2024-01-01T23:00:00Z"), !.state = Closed,
                  !.pull_request = PullRequest(Chars("2024-01-02T10:00:00Z"))],
   [BasePR EXCEPT !.created_at = Chars("2024-01-01T23:00:00Z"), !.state = Closed],
   [BasePR EXCEPT !.created_at = Chars("yesterday"), !.state = Closed,
                  !.pull_request = PullRequest(Chars("2024-01-02T10:00:00Z")),
                  !.draft = TRUE]}

\* records that differ in repository
RepoRecords ==
  {BasePR,
   [BasePR EXCEPT !.repository_url = Chars("https://api.github.com/repos/octo/lib")],
   [BasePR EXCEPT !.repository_url = Chars("https://ghe.example/api/v3/repos/octo/lib"),
                  !.state = Closed],
   [BasePR EXCEPT !.repository_url = Chars("https://api.github.com/repos/acme/app")],
   [BasePR EXCEPT !.repository_url = None],
   [BasePR EXCEPT !.repository_url = Chars("local"), !.state = Closed]}

\* records that differ in creation day and outcome
ScoreRecords ==
  {[BasePR EXCEPT !.created_at = Chars(d), !.state = k.state,
                  !.pull_request = PullRequest(k.merged_at)] :
     d \in {"2024-03-01T00:00:00Z", "2024-03-02T00:00:00Z", "2024-03-10T00:00:00Z"},
     k \in {[state |-> Open, merged_at |-> None],
            [state |-> Closed, merged_at |-> None],
            [state |-> Closed, merged_at |-> Chars("2024-03-11T10:00:00Z")]}}
  \cup {[BasePR EXCEPT !.created_at = Chars("2024-03-02T00:00:00Z"), !.state = None]}

\* records that differ in state, creation time and repository at once
MixedRecords ==
  {[BasePR EXCEPT !.created_at = Chars("2023-12-12T08:00:00Z")],
   BasePR,
   [BasePR EXCEPT !.created_at = Chars("2024-01-01T23:00:00Z"), !.state = Closed,
                  !.pull_request = PullRequest(Chars("2024-01-02T10:00:00Z")),
                  !.repository_url = Chars("https://api.github.com/repos/octo/lib")],
   [BasePR EXCEPT !.created_at = Chars("yesterday"), !.state = Closed,
                  !.repository_url = Chars("https://api.github.com/repos/octo/lib")],
   [BasePR EXCEPT !.created_at = None, !.state = None, !.repository_url = None,
                  !.pull_request = NoPullRequest],
   [BasePR EXCEPT !.created_at = Chars("2024-02-30T10:00:00Z"),
                  !.state = Chars("merged"), !.draft = TRUE],
   [BasePR EXCEPT !.pull_request = PullRequest(Chars("2024-03-22T10:00:00Z"))]}

\* records that repeat a creation time, for streaks of equal gaps
StreakRecords ==
  {[BasePR EXCEPT !.created_at = Chars("2024-03-01T00:00:00Z"), !.state = Closed,
                  !.pull_request = PullRequest(Chars("2024-03-11T10:00:00Z"))],
   [BasePR EXCEPT !.created_at = Chars("2024-03-02T00:00:00Z"), !.state = Closed,
                  !.pull_request = PullRequest(Chars("2024-03-11T10:00:00Z"))],
   [BasePR EXCEPT !.created_at = Chars("2024-03-10T00:00:00Z"), !.state = Closed]}

----------------------------------------------------------------------------
(* Specifications *)

\* calculate_productivity_scores is not running
ScoresIdle ==
  /\ score_pc = "idle" /\ score_i = 0
  /\ avg_time_diff = Real(0) /\ current_score = Real(0)
  /\ dates = <<>> /\ score_list = <<>> /\ score_raised = FALSE

\* analyze_prs_animated is not running
AnalyzeIdle ==
  /\ prs = <<>> /\ pc = "idle" /\ i = 0
  /\ now = DateTime(2024, 6, 29, 1, 0, 0)
  /\ merged = 0 /\ pending = 0 /\ closed = 0 /\ draft = 0 /\ stale = 0
  /\ repo_counter = <<>> /\ yearly = <<>> /\ monthly = <<>> /\ daily = <<>>
  /\ pr_dates = <<>> /\ acceptance = 0 /\ top_repo = None /\ raised = FALSE
  /\ ScoresIdle

\* analyze_prs_animated(input, username) has run up to its loop
AnalyzeStarted(inputs, clocks) ==
  /\ prs \in inputs /\ pc = "loop" /\ i = 0
  /\ now \in clocks
  /\ merged = 0 /\ pending = 0 /\ closed = 0 /\ draft = 0 /\ stale = 0
  /\ repo_counter = <<>> /\ yearly = <<>> /\ monthly = <<>> /\ daily = <<>>
  /\ pr_dates = <<>> /\ acceptance = 0 /\ top_repo = None /\ raised = FALSE
  /\ ScoresIdle

ClassifyIdle == pr = BasePR /\ pr_type = NotRun /\ tool = NotRun

\* fetch_all_prs_animated is not running
FetchIdle ==
  /\ available = 0 /\ fetch_pc = "idle" /\ page = 1 /\ all_prs = <<>>
  /\ total_count = 0 /\ total_pages = 0 /\ requested = <<>> /\ fetch_result = <<>>

\* main is not running
MainIdle ==
  /\ main_pc = "idle" /\ iterations = 0 /\ reported = [answered |-> FALSE, remaining |-> 0] /\ rate_ok = TRUE
  /\ choice = <<>> /\ menus = 0 /\ scans = 0

\* no LoadingSpinner exists
SpinnerIdle ==
  /\ message = <<>> /\ final_message = None
  /\ running = FALSE /\ thread = FALSE /\ spin_pc = "unborn" /\ spin_i = 0
  /\ caller_pc = "idle" /\ stdout = <<>>

InitClassify ==
  /\ pr \in TypeRecords \cup ToolRecords
  /\ pr_type = NotRun /\ tool = NotRun
  /\ AnalyzeIdle
  /\ FetchIdle /\ MainIdle /\ SpinnerIdle

InitCounts ==
  /\ ClassifyIdle
  /\ AnalyzeStarted(Lists(CountRecords, MaxCountPRs), {DateTime(2024, 6, 30, 1, 0, 0)})
  /\ FetchIdle /\ MainIdle /\ SpinnerIdle

InitDates ==
  /\ ClassifyIdle
  /\ AnalyzeStarted(Lists(DateRecords, MaxPRs), Moments)
  /\ FetchIdle /\ MainIdle /\ SpinnerIdle

InitRepos ==
  /\ ClassifyIdle
  /\ AnalyzeStarted(Lists(RepoRecords, MaxPRs), {DateTime(2024, 6, 30, 1, 0, 0)})
  /\ FetchIdle /\ MainIdle /\ SpinnerIdle

InitScores ==
  /\ ClassifyIdle
  /\ AnalyzeStarted(Lists(ScoreRecords, MaxPRs), {DateTime(2024, 6, 30, 1, 0, 0)})
  /\ FetchIdle /\ MainIdle /\ SpinnerIdle

InitMixed ==
  /\ ClassifyIdle
  /\ AnalyzeStarted(Lists(MixedRecords, MaxPRs), {DateTime(2024, 6, 30, 1, 0, 0)})
  /\ FetchIdle /\ MainIdle /\ SpinnerIdle

InitStreaks ==
  /\ ClassifyIdle
  /\ AnalyzeStarted(Lists(StreakRecords, MaxStreakPRs), {DateTime(2024, 6, 30, 1, 0, 0)})
  /\ FetchIdle /\ MainIdle /\ SpinnerIdle

\* fetch_all_prs_animated(username, token) has set page = 1 and all_prs = []
InitFetch ==
  /\ available \in 0 .. MaxTotalCount
  /\ fetch_pc = "start" /\ page = 1 /\ all_prs = <<>>
  /\ total_count = 0 /\ total_pages = 0 /\ requested = <<>> /\ fetch_result = <<>>
  /\ ClassifyIdle /\ AnalyzeIdle /\ MainIdle /\ SpinnerIdle

\* main has read the token and enters its loop
InitMain ==
  /\ main_pc = "top" /\ iterations = 0
  /\ reported = [answered |-> FALSE, remaining |-> 0] /\ rate_ok = TRUE
  /\ choice = <<>> /\ menus = 0 /\ scans = 0
  /\ ClassifyIdle /\ AnalyzeIdle /\ FetchIdle /\ SpinnerIdle

\* LoadingSpinner(message) has been constructed
InitSpinner ==
  /\ message \in {Chars("Loading"), Chars("Connecting")}
  /\ final_message = None
  /\ running = FALSE /\ thread = FALSE /\ spin_pc = "unborn" /\ spin_i = 0
  /\ caller_pc = "made" /\ stdout = <<>>
  /\ ClassifyIdle /\ AnalyzeIdle /\ FetchIdle /\ MainIdle

SpecClassify == InitClassify /\ [][NextClassify]_vars
SpecCounts == InitCounts /\ [][NextAnalyze]_vars
SpecDates == InitDates /\ [][NextAnalyze]_vars
SpecRepos == InitRepos /\ [][NextAnalyze]_vars
SpecMixed == InitMixed /\ [][NextAnalyze]_vars
SpecScores == InitScores /\ [][NextAnalyze \/ NextScores]_vars
SpecStreaks == InitStreaks /\ [][NextAnalyze \/ NextScores]_vars
SpecFetch == InitFetch /\ [][NextFetch]_vars
SpecMain == InitMain /\ [][NextMain]_vars

\* the spinner thread is scheduled as long as it can take a step (its sleep
\* returns), and a join whose thread has ended returns
SpecSpinner ==
  /\ InitSpinner /\ [][NextSpinner]_vars
  /\ WF_vars(SpinTest \/ SpinWrite \/ SpinSleep)
  /\ WF_vars(StopJoin)

----------------------------------------------------------------------------
(* Properties of the classifier, checked under SpecClassify *)

\* the record's fields as detect_pr_type and detect_pr_tool read them
TitleRead == Lower(safe_str(pr.title, <<>>))
BodyRead == Lower(safe_str(pr.body, <<>>))
LoginRead == Lower(safe_str(UserLogin(pr), <<>>))

\* the body as the record holds it (a null body is the empty text)
BodyText == safe_str(pr.body, <<>>)

\* the score of category c as the specification words it, for a lower-cased
\* title and body
CategoryScore(c, title, body) ==
  TypeTable[c].title_weight
    * Cardinality({k \in DOMAIN TypeTable[c].keywords : In(TypeTable[c].keywords[k], title)})
  + TypeTable[c].body_weight
    * Cardinality({k \in DOMAIN TypeTable[c].keywords : In(TypeTable[c].keywords[k], body)})

\* the scores of the record under classification
CategoryScores ==
  LET title == TitleRead
      body == BodyRead
  IN [c \in DOMAIN TypeTable |-> CategoryScore(c, title, body)]

\* C1: a record whose lower-cased login contains a pattern of signature A and
\* whose body contains a body hint of another signature B is labelled A,
\* whatever the declaration order of A and B.
C1_LoginBeatsBodyHint ==
  tool # NotRun =>
    \A a \in DOMAIN ToolTable : \A b \in DOMAIN ToolTable \ {a} :
      (AnyIn(ToolTable[a].patterns, LoginRead) /\ AnyIn(ToolTable[b].body_hints, BodyText))
        => tool = ToolTable[a].name

\* C2: detect_pr_type returns the category of maximal score, the score being
\* title_weight per keyword found in the lower-cased title plus body_weight
\* per keyword found in the lower-cased body; among the categories of maximal
\* score it returns the one declared first.
C2_FirstMaximalCategory ==
  pr_type # NotRun =>
    \A sc \in {CategoryScores} :
      (\E c \in DOMAIN sc : sc[c] > 0) =>
        \E c \in DOMAIN sc :
          /\ pr_type = TypeTable[c].name
          /\ \A d \in DOMAIN sc : sc[d] <= sc[c]
          /\ \A d \in 1..(c - 1) : sc[d] < sc[c]

\* a record on which two categories share the maximal score has been typed
C2_Witness ==
  /\ pr_type # NotRun
  /\ \E sc \in {CategoryScores} :
       \E c \in DOMAIN sc : \E d \in DOMAIN sc \ {c} :
         /\ sc[c] = sc[d] /\ sc[c] > 0
         /\ \A e \in DOMAIN sc : sc[e] <= sc[c]

\* C3: detect_pr_type returns one label, a key of PR_TYPE_PATTERNS or
\* "General", also for a null or empty title or body, and it returns "General"
\* exactly when no category scores above zero.
C3_LabelClosedAndGeneralIffNoScore ==
  pr_type # NotRun =>
    /\ pr_type \in {TypeTable[c].name : c \in DOMAIN TypeTable} \cup {General}
    /\ \A sc \in {CategoryScores} :
         pr_type = General <=> \A c \in DOMAIN sc : sc[c] = 0

\* a record with null title and null body has been typed "General"
C3_Witness == pr_type = General /\ pr.title = None /\ pr.body = None

\* no signature other than the default one matches the record
NoSignatureMatches ==
  \A t \in DOMAIN ToolTable :
    ~ToolTable[t].is_default => ~ToolMatches(ToolTable[t], LoginRead, BodyRead)

\* C4: when no non-default signature matches, detect_pr_tool returns
\* "Git CLI + API" if the whitespace-trimmed body has 0 to 19 characters (a
\* null body has 0) and "GitHub Web" if it has 20 or more.
C4_ShortBodyFallback ==
  (tool # NotRun /\ NoSignatureMatches) =>
    /\ Len(Strip(BodyText)) < 20 => tool = GitCliApi
    /\ Len(Strip(BodyText)) >= 20 => tool = GitHubWeb

\* the least element of a non-empty set of table indices
Least(S) == CHOOSE t \in S : \A u \in S : t <= u

\* the signatures that match the record, the default one left out: a pattern
\* is in the lower-cased login or in the lower-cased body, or a body hint is
\* in the text `hinted`
Matching(hinted) ==
  {t \in DOMAIN ToolTable :
     /\ ~ToolTable[t].is_default
     /\ \/ AnyIn(ToolTable[t].patterns, LoginRead)
        \/ AnyIn(ToolTable[t].patterns, BodyRead)
        \/ AnyIn(ToolTable[t].body_hints, hinted)}

\* detect_pr_tool has returned the first signature of S, which is not
\* "Git CLI + API", or one of the two fallback labels when S is empty
ReturnsFirstOf(S) ==
  /\ S # {} => (tool = ToolTable[Least(S)].name /\ tool # GitCliApi)
  /\ S = {} => tool \in {GitCliApi, GitHubWeb}

\* C20, as claimed: detect_pr_tool returns the first signature in declaration
\* order, the default one skipped, of which a pattern is in the lower-cased
\* login or in the lower-cased body or a body hint is in the body as the
\* record holds it; that signature is never "Git CLI + API".
C20_FirstSignatureHintInBody ==
  tool # NotRun => \A S \in {Matching(BodyText)} : ReturnsFirstOf(S)

\* C20, amended: detect_pr_tool returns the first signature in declaration
\* order, the default one skipped, of which a pattern is in the lower-cased
\* login or in the lower-cased body or a body hint is in the lower-cased
\* body; that signature is never "Git CLI + API".
C20_FirstSignature ==
  tool # NotRun => \A S \in {Matching(BodyRead)} : ReturnsFirstOf(S)

\* a record that two signatures match has been labelled with the first, which
\* it matches by a hint that is in the lower-cased body only
C20_Witness ==
  /\ tool # NotRun
  /\ \E S \in {Matching(BodyRead)} :
       /\ Cardinality(S) >= 2
       /\ tool = ToolTable[Least(S)].name
       /\ Least(S) \notin Matching(BodyText)

----------------------------------------------------------------------------
(* Properties of analyze_prs_animated *)

\* the records the loop has consumed
Consumed == 1..i

\* the number of consumed records that satisfy P
NumberOf(P(_)) == Cardinality({k \in Consumed : P(prs[k])})

IsOpen(p) == StateOf(p) = Open
IsClosedMerged(p) == StateOf(p) = Closed /\ MergedAt(p) # None
IsClosedUnmerged(p) == StateOf(p) = Closed /\ MergedAt(p) = None
IsDraft(p) == p.draft

\* C5: each record increments exactly one of merged, closed, pending, or none:
\* merged when its state is "closed" and merged_at is present, closed when its
\* state is "closed" and merged_at is absent, pending when its state is
\* "open"; a record in another state changes none of the three.  (Checked
\* under SpecCounts.)
C5_PrimaryCounters ==
  pc \in {"loop", "done"} =>
    /\ merged = NumberOf(IsClosedMerged)
    /\ closed = NumberOf(IsClosedUnmerged)
    /\ pending = NumberOf(IsOpen)

\* a run over records of all four kinds has ended
C5_Witness ==
  /\ pc = "done"
  /\ merged >= 1 /\ closed >= 1 /\ pending >= 1
  /\ merged + closed + pending < Len(prs)

\* C7: the acceptance rate is 100 * merged / (merged + pending + closed)
\* rounded to 2 decimals when the denominator is not zero and 0 when it is;
\* draft and stale are no part of the denominator; merged=3, pending=1,
\* closed=1 gives 60.0; the rate lies in [0, 100].  (acceptance is in
\* hundredths; checked under SpecCounts.)
C7_AcceptanceRate ==
  pc = "done" =>
    /\ merged + pending + closed = 0 => acceptance = 0
    /\ merged + pending + closed # 0 =>
         /\ 2 * (acceptance * (merged + pending + closed) - 10000 * merged)
              <= merged + pending + closed
         /\ 2 * (10000 * merged - acceptance * (merged + pending + closed))
              <= merged + pending + closed
    /\ acceptance \in 0..10000
    /\ (merged = 3 /\ pending = 1 /\ closed = 1) => acceptance = 6000

\* the run of the example has ended, with a draft among its records
C7_Witness ==
  /\ pc = "done"
  /\ merged = 3 /\ pending = 1 /\ closed = 1 /\ draft >= 1
  /\ acceptance = 6000

\* the number of input records of repository key
RecordsOf(key) == Cardinality({k \in DOMAIN prs : RepoOf(prs[k]) = key})

\* the position of the first input record of repository key
FirstOf(key) == CHOOSE k \in DOMAIN prs :
                  RepoOf(prs[k]) = key /\ \A j \in 1..(k - 1) : RepoOf(prs[j]) # key

RepoKeys == {RepoOf(prs[k]) : k \in DOMAIN prs}

\* C8: for a non-empty input top_repo is a repository of maximal count, and
\* among the repositories of maximal count the one whose first record comes
\* first in the input.  (Checked under SpecRepos.)
C8_TopRepo ==
  (pc = "done" /\ prs # <<>>) =>
    /\ top_repo \in RepoKeys
    /\ \A key \in RepoKeys :
         /\ RecordsOf(key) <= RecordsOf(top_repo)
         /\ (key # top_repo /\ RecordsOf(key) = RecordsOf(top_repo))
              => FirstOf(top_repo) < FirstOf(key)

\* a run has ended in which two repositories share the maximal count
C8_Witness ==
  /\ pc = "done"
  /\ \E key \in RepoKeys :
       /\ key # top_repo
       /\ RecordsOf(key) = RecordsOf(top_repo)
       /\ \A other \in RepoKeys : RecordsOf(other) <= RecordsOf(key)

----------------------------------------------------------------------------
(* Properties of the dates, checked under SpecDates *)

\* the record's creation time parses as a full timestamp
WellFormed(p) == ParsesDateTime(Prefix(CreatedAt(p), 19))
Malformed(p) == ~WellFormed(p)

\* the creation time of a well-formed record
CreatedTime(p) == ParseDateTime(Prefix(CreatedAt(p), 19))

\* t - c is more than 180 days
MoreThan180DaysApart(t, c) ==
  \/ t.ord - c.ord > 180
  \/ t.ord - c.ord = 180 /\ t.sec > c.sec

\* the step of the loop that consumes record i + 1
ConsumesARecord == pc = "loop" /\ i' = i + 1

\* C6, as claimed: stale is incremented for a record exactly when its state
\* is "open" and now - createdAt is more than 180 days, whatever the time of
\* day of the creation time and of now.
C6_StaleAfter180Days ==
  [][(ConsumesARecord /\ WellFormed(prs[i + 1])) =>
       /\ stale' \in {stale, stale + 1}
       /\ stale' = stale + 1 <=>
            /\ IsOpen(prs[i + 1])
            /\ MoreThan180DaysApart(now', CreatedTime(prs[i + 1]))]_vars

\* the record's creation day, for a record whose created_at[:10] is a date
CreationDay(p) == ParseDate(Prefix(CreatedAt(p), 10)).ord

\* C6, amended: stale is incremented for a record exactly when its state is
\* "open", the first 10 characters of created_at are a date and the calendar
\* day of now is more than 180 days after that date; the time of day of the
\* creation time and of now plays no part.
C6_StaleAfter180CalendarDays ==
  [][ConsumesARecord =>
       /\ stale' \in {stale, stale + 1}
       /\ stale' = stale + 1 <=>
            /\ IsOpen(prs[i + 1])
            /\ ParsesDate(Prefix(CreatedAt(prs[i + 1]), 10))
            /\ now'.ord - CreationDay(prs[i + 1]) > 180]_vars

\* a run has ended that found an open record stale and another open record
\* not stale, the clock standing at 23:30 of the 180th day after 2024-01-01
C6_Witness ==
  /\ pc = "done"
  /\ stale >= 1 /\ stale < pending
  /\ now = DateTime(2024, 6, 29, 23, 30, 0)
  /\ \E k \in DOMAIN prs :
       IsOpen(prs[k]) /\ CreatedAt(prs[k]) = Chars("2024-01-01T23:00:00Z")

RECURSIVE TriplesOf(_)
\* the triples of the well-formed records of a list, in the order of the list
TriplesOf(list) ==
  IF list = <<>> THEN <<>>
  ELSE LET p == list[Len(list)]
       IN TriplesOf(SubSeq(list, 1, Len(list) - 1))
          \o (IF WellFormed(p)
                THEN <<[date |-> CreatedTime(p), state |-> StateOf(p),
                        merged |-> MergedAt(p) # None]>>
                ELSE <<>>)

RECURSIVE Dated(_, _)
\* the items of a triple list that bear date d, in the order of the list
Dated(list, d) ==
  IF list = <<>> THEN <<>>
  ELSE (IF Head(list).date = d THEN <<Head(list)>> ELSE <<>>) \o Dated(Tail(list), d)

\* C9: the returned pr_dates is in ascending order of timestamp, and triples
\* of equal timestamp keep the order their records had in the input.
C9_SortedAndStable ==
  pc = "done" =>
    \A input \in {TriplesOf(prs)} :
      /\ Len(pr_dates) = Len(input)
      /\ \A k \in 1..(Len(pr_dates) - 1) : ~Before(pr_dates[k + 1].date, pr_dates[k].date)
      /\ \A k \in DOMAIN input : Dated(pr_dates, input[k].date) = Dated(input, input[k].date)

\* a run has ended whose sort moved a triple and left two different triples of
\* equal timestamp next to each other
C9_Witness ==
  /\ pc = "done"
  /\ pr_dates # TriplesOf(prs)
  /\ \E k \in 1..(Len(pr_dates) - 1) :
       pr_dates[k].date = pr_dates[k + 1].date /\ pr_dates[k] # pr_dates[k + 1]

\* the sum of the counts of a dict
RECURSIVE SumOf(_)
SumOf(d) == IF d = <<>> THEN 0 ELSE Head(d).value + SumOf(Tail(d))

\* C10: a record whose created_at does not parse as a timestamp does not end
\* the pass: it gives no triple to pr_dates, it is counted in the repository,
\* year, month and day histograms and in merged, pending, closed and draft,
\* and every other record is processed as usual.
C10_MalformedTimestampSkipped ==
  (pc = "done" /\ \E k \in DOMAIN prs : Malformed(prs[k])) =>
    /\ ~raised
    /\ i = Len(prs)
    /\ Len(pr_dates) = NumberOf(WellFormed)
    /\ \A k \in DOMAIN pr_dates :
         \E j \in DOMAIN prs : WellFormed(prs[j]) /\ pr_dates[k].date = CreatedTime(prs[j])
    /\ SumOf(repo_counter) = Len(prs)
    /\ SumOf(yearly) = Len(prs)
    /\ SumOf(monthly) = Len(prs)
    /\ SumOf(daily) = Len(prs)
    /\ \A k \in DOMAIN prs :
         /\ HasKey(repo_counter, RepoOf(prs[k]))
         /\ HasKey(yearly, Prefix(CreatedAt(prs[k]), 4))
         /\ HasKey(monthly, Prefix(CreatedAt(prs[k]), 7))
         /\ HasKey(daily, Prefix(CreatedAt(prs[k]), 10))
    /\ merged = NumberOf(IsClosedMerged)
    /\ closed = NumberOf(IsClosedUnmerged)
    /\ pending = NumberOf(IsOpen)
    /\ draft = NumberOf(IsDraft)

\* a run has ended over a malformed record that is closed, merged and a draft,
\* followed by a well-formed record
C10_Witness ==
  /\ pc = "done"
  /\ Len(prs) >= 2
  /\ Malformed(prs[1]) /\ IsClosedMerged(prs[1]) /\ IsDraft(prs[1])
  /\ WellFormed(prs[2])
  /\ merged >= 1 /\ draft >= 1 /\ Len(pr_dates) >= 1


----------------------------------------------------------------------------
(* Properties of calculate_productivity_scores, checked under SpecScores *)

\* the call has returned (or an exception has escaped it)
Returned == score_pc = "done"

\* C11: the two lists calculate_productivity_scores returns have the same
\* length: the length of the triple list when that list has 2 or more
\* triples, and 0 when it has fewer than 2.
C11_SeriesLength ==
  Returned =>
    /\ Len(dates) = Len(score_list)
    /\ Len(pr_dates) >= 2 => Len(score_list) = Len(pr_dates)
    /\ Len(pr_dates) < 2 => Len(score_list) = 0

C11_Witness ==
  Returned /\ Len(pr_dates) >= 2 /\ Len(dates) = Len(pr_dates)


\* lo <= x <= hi
InRange(x, lo, hi) == ~Less(x, Real(lo)) /\ ~Less(Real(hi), x)

Rescales == score_pc = "loop" /\ score_pc' = "done" /\ ~score_raised'

\* C13: the rescale multiplies every score of the recurrence by one number:
\* for all indices a, b the ratio post[a] / post[b] of the returned scores is
\* the ratio pre[a] / pre[b] of the scores before the rescale (none of them
\* is 0), which is post[a] * pre[b] = post[b] * pre[a].
C13_RescaleLinear ==
  [][Rescales =>
       /\ Len(score_list') = Len(score_list)
       /\ \A a, b \in 1..Len(score_list) :
            /\ score_list[b].num # 0 /\ score_list'[b].num # 0
            /\ Over(score_list'[a], score_list'[b]) = Over(score_list[a], score_list[b])]_vars

\* a returned series of different scores that the rescale has changed
C13_Witness ==
  /\ Returned
  /\ Len(score_list) >= 2
  /\ score_list[1] # Real(50)
  /\ score_list[1] # score_list[2]


\* a merged triple created on the given day of March 2024
MergedOn(day) ==
  [date |-> DateTime(2024, 3, day, 0, 0, 0), state |-> Closed, merged |-> TRUE]

\* three merged triples dated day 1, day 2 and day 10, acceptance rate 100
Scenario ==
  /\ pr_dates = <<MergedOn(1), MergedOn(2), MergedOn(10)>>
  /\ acceptance = 10000

\* C14: for three merged triples dated day 1, day 2 and day 10 and the
\* acceptance rate 100 the returned series has 3 scores, the first is 50, the
\* second is greater than the first, the third is lower than the second, all
\* lie in [5, 95], and the rescale has left the last score as the loop ended.
C14_Scenario ==
  Returned /\ Scenario =>
    /\ Len(dates) = 3 /\ Len(score_list) = 3
    /\ score_list[1] = Real(50)
    /\ Less(score_list[1], score_list[2])
    /\ Less(score_list[3], score_list[2])
    /\ \A k \in 1..3 : InRange(score_list[k], 5, 95)
    /\ score_list[3] = current_score

C14_Witness == Returned /\ Scenario /\ ~score_raised


\* every triple of the list has the timestamp of the first
AllAtOnce == \A k \in DOMAIN pr_dates : pr_dates[k].date = pr_dates[1].date

\* C19: no exception escapes calculate_productivity_scores; for a list of 2
\* or more triples of one timestamp the average gap is 0 and the call still
\* returns a series as long as the list; for a list of fewer than 2 triples
\* it returns two empty lists.
C19_NeverRaises ==
  /\ ~score_raised
  /\ (Returned /\ Len(pr_dates) >= 2 /\ AllAtOnce) =>
        /\ avg_time_diff = Real(0)
        /\ Len(dates) = Len(pr_dates) /\ Len(score_list) = Len(pr_dates)
  /\ (Returned /\ Len(pr_dates) < 2) => (dates = <<>> /\ score_list = <<>>)

C19_Witness ==
  /\ Returned /\ ~score_raised
  /\ Len(pr_dates) = 3 /\ AllAtOnce
  /\ Len(score_list) = 3

\* a pass of the loop of calculate_productivity_scores that appends a score,
\* for the triple at Python index score_i
Steps == score_pc = "loop" /\ score_i' = score_i + 1

\* the hours from the triple at Python index k - 1 to the one at index k
Gap(k) ==
  Fraction((pr_dates[k + 1].date.ord - pr_dates[k].date.ord) * 24 * 3600
             + pr_dates[k + 1].date.sec - pr_dates[k].date.sec, 3600)

\* the mean of the consecutive gaps: the hours from the first triple to the
\* last, over the number of gaps
AvgGap ==
  LET n == Len(pr_dates)
  IN Fraction((pr_dates[n].date.ord - pr_dates[1].date.ord) * 24 * 3600
                + pr_dates[n].date.sec - pr_dates[1].date.sec, 3600 * (n - 1))

\* the speed term as claimed
ClaimedSpeed(gap, avgGap) ==
  IF Less(gap, avgGap)
  THEN Min(Over(Times(Real(15), Minus(avgGap, gap)), Max(avgGap, Real(1))), Real(10))
  ELSE Minus(Real(0),
             Min(Over(Times(Real(10), Minus(gap, avgGap)), Max(avgGap, Real(1))), Real(15)))

\* C21: each pass adds to the carried score, before the clamp, the speed
\* term min(15 * (avgGap - gap) / max(avgGap, 1), 10) when gap < avgGap and
\* minus min(10 * (gap - avgGap) / max(avgGap, 1), 15) otherwise, next to the
\* outcome term and the consistency bonus; for gap = avgGap the speed term
\* changes nothing.
C21_SpeedTerm ==
  [][Steps =>
       \A triple \in {pr_dates[score_i + 1]}, gap \in {Gap(score_i)}, avgGap \in {AvgGap} :
          \A others \in {Plus(OutcomeTerm(triple),
                              ConsistencyBonus(pr_dates, score_i, gap, avgGap))} :
            /\ current_score'
                 = Clamp(Plus(current_score, Plus(ClaimedSpeed(gap, avgGap), others)))
            /\ gap = avgGap => current_score' = Clamp(Plus(current_score, others))]_vars

\* a list whose first gap is shorter and whose second gap is longer than the
\* average has been scored, the last sum not clamped
C21_Witness ==
  /\ Returned /\ Len(score_list) = 3
  /\ Less(Gap(1), AvgGap) /\ Less(AvgGap, Gap(2))
  /\ Less(current_score, Real(95)) /\ Less(Real(5), current_score)

\* the outcome term as claimed
ClaimedOutcome(triple) ==
  IF triple.merged THEN Real(5)
  ELSE IF triple.state = Chars("closed") THEN Real(-3)
  ELSE Real(0)

\* C22: each pass adds to the carried score, before the clamp, the outcome
\* term: 5 for a triple whose merged flag is true, else -3 for a triple of
\* state "closed", else 0; a merged triple of state "closed" gets 5 only.
C22_OutcomeTerm ==
  [][Steps =>
       \A triple \in {pr_dates[score_i + 1]}, gap \in {Gap(score_i)} :
          \A others \in {Plus(SpeedTerm(gap, avg_time_diff),
                              ConsistencyBonus(pr_dates, score_i, gap, avg_time_diff))} :
            current_score'
              = Clamp(Plus(current_score, Plus(ClaimedOutcome(triple), others)))]_vars

\* a merged triple of state "closed" and an unmerged triple of an
\* unrecognized state have been scored
C22_Witness ==
  /\ Returned /\ Len(score_list) = 3
  /\ pr_dates[2].merged /\ pr_dates[2].state = Closed
  /\ ~pr_dates[3].merged /\ pr_dates[3].state = UnknownState

\* the consistency bonus as claimed, for the triple at Python index k
ClaimedBonus(k, avgGap) ==
  IF k >= 2 /\ Less(AbsReal(Minus(Gap(k), Gap(k - 1))), Times(Fraction(3, 10), avgGap))
  THEN Real(2) ELSE Real(0)

ClaimedFactor(rate) ==
  LET m == IF rate > 0 THEN Fraction(rate, 100 * 100) ELSE Fraction(1, 2)
  IN Plus(Fraction(1, 2), Times(Fraction(1, 2), m))

\* C24: after the loop every score s of the list is replaced by
\* s * (0.5 + 0.5 * m), m being acceptanceRate / 100 for a rate above 0 and
\* 0.5 for the rate 0; the first returned score is 50 * (0.5 + 0.5 * m), and
\* no clamp is applied to the products.
C24_FinalRescale ==
  [][Rescales =>
       \A factor \in {ClaimedFactor(acceptance)} :
          /\ Len(score_list') = Len(score_list)
          /\ \A k \in DOMAIN score_list : score_list'[k] = Times(score_list[k], factor)
          /\ score_list'[1] = Times(Real(50), factor)]_vars

\* a series has been returned for the rate 0: its first score is 37.5
C24_Witness ==
  /\ Returned /\ acceptance = 0
  /\ Len(score_list) >= 2
  /\ score_list[1] = Fraction(75, 2)

\* acceptance rates to compare with, in hundredths of a percent
OtherRates == {0, 1, 2500, 5000, 7500, 10000}

\* the series the call returns for the list scored so far and the rate b
ReturnedFor(b) ==
  [k \in DOMAIN score_list |-> Rescale(score_list[k], Multiplier(b))]

\* series s is at every index at most series t
Below(s, t) == \A k \in DOMAIN s : ~Less(t[k], s[k])

\* C25, as claimed: for one triple list and two rates a <= b of [0, 100] the
\* score returned for a is at every index at most the score returned for b.
C25_MonotoneInRate ==
  [][Rescales =>
       \A b \in OtherRates :
          /\ acceptance <= b => Below(score_list', ReturnedFor(b))
          /\ b <= acceptance => Below(ReturnedFor(b), score_list')]_vars

\* C25, amended: for one triple list and two rates 0 < a <= b <= 100 the
\* score returned for a is at every index at most the score returned for b;
\* the rate 0 returns the scores of the rate 50.
C25_MonotoneInPositiveRate ==
  [][Rescales =>
       \A b \in OtherRates :
          /\ (0 < acceptance /\ acceptance <= b) => Below(score_list', ReturnedFor(b))
          /\ (0 < b /\ b <= acceptance) => Below(ReturnedFor(b), score_list')
          /\ (acceptance = 0 /\ b = 5000) => score_list' = ReturnedFor(b)]_vars

\* a series has been returned for a rate strictly between 0 and 50, lower
\* than the series of the rate 50
C25_Witness ==
  /\ Returned /\ Len(score_list) >= 2
  /\ 0 < acceptance /\ acceptance < 5000
  /\ Less(score_list[1], Fraction(75, 2))

----------------------------------------------------------------------------
(* Further properties of analyze_prs_animated *)

\* C15: for an empty record list analyze_prs_animated returns, without an
\* error, a Summary whose five counts and acceptance rate are 0, whose
\* top_repo is "No repositories", and whose four histograms and triple list
\* are empty.
C15_EmptyInput ==
  pc = "done" /\ prs = <<>> =>
    /\ ~raised
    /\ merged = 0 /\ pending = 0 /\ closed = 0 /\ draft = 0 /\ stale = 0
    /\ acceptance = 0
    /\ top_repo = NoRepositories
    /\ repo_counter = <<>> /\ yearly = <<>> /\ monthly = <<>> /\ daily = <<>>
    /\ pr_dates = <<>>

C15_Witness == pc = "done" /\ prs = <<>> /\ top_repo = NoRepositories


\* the keys of a dict and the count of a key (0 for a key that is absent)
KeysOf(d) == {d[k].key : k \in DOMAIN d}
CountOf(d, key) ==
  IF HasKey(d, key) THEN d[CHOOSE k \in DOMAIN d : d[k].key = key].value ELSE 0

\* histogram e is histogram d with one bucket one higher, or one new bucket
\* of count 1, every other bucket as it was
OneBucketMore(d, e) ==
  \E key \in KeysOf(e) :
     /\ CountOf(e, key) = CountOf(d, key) + 1
     /\ \A other \in (KeysOf(d) \cup KeysOf(e)) \ {key} :
          CountOf(e, other) = CountOf(d, other)

\* C16: every record the loop consumes, whatever its state and whether or not
\* its timestamp parses, adds one to exactly one bucket of each of the
\* repository, year, month and day histograms; so the counts of each
\* histogram sum to the number of records consumed, and in the end to the
\* number of input records.
C16_HistogramsCountEveryRecord ==
  /\ [](pc \in {"loop", "done"} =>
          /\ SumOf(repo_counter) = i /\ SumOf(yearly) = i
          /\ SumOf(monthly) = i /\ SumOf(daily) = i
          /\ pc = "done" => i = Len(prs))
  /\ [][ConsumesARecord =>
          /\ OneBucketMore(repo_counter, repo_counter')
          /\ OneBucketMore(yearly, yearly')
          /\ OneBucketMore(monthly, monthly')
          /\ OneBucketMore(daily, daily')]_vars

\* a list of an open, a closed and an unrecognized record, one of them with a
\* timestamp that does not parse, two of them in one month, all consumed
C16_Witness ==
  /\ pc = "done"
  /\ \E a, b, c \in DOMAIN prs :
       /\ StateOf(prs[a]) = Open /\ StateOf(prs[b]) = Closed
       /\ StateOf(prs[c]) \notin {Open, Closed}
       /\ Malformed(prs[b])
  /\ Len(yearly) < Len(prs)
  /\ SumOf(yearly) = Len(prs)


\* the loop of analyze_prs_animated over a whole list, from the locals acc,
\* datetime.now() returning clock; an exception ends the loop
RECURSIVE Run(_, _, _)
Run(acc, list, clock) ==
  IF list = <<>> \/ acc.raised THEN acc
  ELSE Run(LoopBody(acc, Head(list), clock), Tail(list), clock)

\* a dict as a mapping: the set of its (key, count) pairs
AsMapping(d) == {<<d[k].key, d[k].value>> : k \in DOMAIN d}

\* the order-free part of the Summary made from the locals acc
OrderFree(acc) ==
  [merged |-> acc.merged, pending |-> acc.pending, closed |-> acc.closed,
   draft |-> acc.draft, stale |-> acc.stale,
   acceptance |-> Acceptance(acc.merged, Total(acc.merged, acc.pending, acc.closed)),
   repo_counter |-> AsMapping(acc.repo_counter), yearly |-> AsMapping(acc.yearly),
   monthly |-> AsMapping(acc.monthly), daily |-> AsMapping(acc.daily)]

MergedTriples == {k \in DOMAIN pr_dates : pr_dates[k].merged}

\* C18: in the Summary analyze_prs_animated returns, every triple whose
\* merged flag is true has the state "closed", and the record of every such
\* triple is counted in merged (so merged is at least their number).
C18_MergedTripleIsClosed ==
  pc = "done" =>
    /\ \A k \in MergedTriples : pr_dates[k].state = Closed
    /\ Cardinality(MergedTriples) <= merged



\* C26: every Summary analyze_prs_animated returns has stale <= pending,
\* draft at most the number of input records, and merged + pending + closed
\* at most the number of input records, with equality exactly when the state
\* of every record is "open" or "closed".
C26_CountBounds ==
  (pc = "done" /\ ~raised) =>
    \A total \in {merged + pending + closed} :
       /\ stale <= pending
       /\ draft <= Len(prs)
       /\ total <= Len(prs)
       /\ total = Len(prs)
            <=> \A k \in DOMAIN prs : StateOf(prs[k]) \in {Chars("open"), Chars("closed")}

\* a Summary of open records, one of them stale, and a draft record of an
\* unrecognized state
C26_Witness ==
  /\ pc = "done" /\ ~raised
  /\ Len(prs) = 3
  /\ stale = 1 /\ pending = 2 /\ draft = 1
  /\ merged + pending + closed = 2

----------------------------------------------------------------------------
(* Properties of fetch_all_prs_animated, checked under SpecFetch *)

\* every request made so far was served by the API
AllServed == \A k \in DOMAIN requested : requested[k].outcome = "served"

\* the items 1 .. n in the order the API lists them
FirstItems(n) == [k \in 1 .. n |-> k]

\* C27: when the first response reports total_count = N > 0 and the API serves
\* those N items in pages of 100, the loop ends (each iteration started has
\* added one full page, so at most N / 100 iterations continue), the list
\* returned holds the N items once each, and no request names a page above
\* total_pages = ceil(N / 100).
C27_PagesWithinTotal ==
  (AllServed /\ available > 0 /\ fetch_pc \in {"loop", "done"}) =>
    /\ fetch_pc # "raised"
    /\ total_count = available
    /\ fetch_pc = "loop" => /\ all_prs = FirstItems(PerPage * (page - 1))
                            /\ Len(all_prs) <= available
    /\ fetch_pc = "done" => fetch_result = FirstItems(available)
    /\ \A k \in DOMAIN requested : requested[k].page <= total_pages

\* the request the step has just made
LastRequest == requested'[Len(requested')]

\* C28: a first request that fails (an error, or no data) makes the function
\* return the empty list; a later page request that fails or is answered
\* without items ends the loop, and the function returns the items of the pages
\* fetched before it, which may be fewer than total_count; no exception escapes.
C28_FailureHandling ==
  /\ [](fetch_pc # "raised")
  /\ [](fetch_pc = "loop" => all_prs = FirstItems(PerPage * (page - 1)))
  /\ [][requested' # requested =>
          /\ (fetch_pc = "start" /\ LastRequest.outcome # "served")
                => fetch_pc' = "done" /\ fetch_result' = <<>>
          /\ (/\ fetch_pc = "loop"
              /\ \/ LastRequest.outcome # "served"
                 \/ ItemsOfPage(available, page) = <<>>)
                => fetch_pc' = "done" /\ fetch_result' = all_prs /\ all_prs' = all_prs]_vars

\* the request for the second page failed, and the first page was returned
C28_Witness ==
  /\ fetch_pc = "done"
  /\ Len(requested) = 3
  /\ requested[3].outcome = "error"
  /\ fetch_result = FirstItems(PerPage)
  /\ Len(fetch_result) < total_count

----------------------------------------------------------------------------
(* Properties of main, checked under SpecMain *)

\* the rate limit request of the current iteration answered "0 remaining"
Exhausted == reported.answered /\ reported.remaining = 0

----------------------------------------------------------------------------
(* Properties of LoadingSpinner, checked under SpecSpinner *)

\* C30: whatever the interleaving of the caller and the spinner thread, once
\* stop has been called after start the thread leaves its loop and is joined
\* and stop returns; the final message of stop is the last thing written to
\* stdout, so no frame follows it.
C30_StopJoinsSpinner ==
  /\ (caller_pc = "stopping") ~> (caller_pc = "returned" /\ spin_pc = "exited")
  /\ [](caller_pc = "returned" => spin_pc = "exited")
  /\ [](\A k \in DOMAIN stdout : stdout[k].kind = "final" => k = Len(stdout))
  /\ []((caller_pc = "returned") = (stdout # <<>> /\ stdout[Len(stdout)].kind = "final"))

\* stop was called while the thread was between its loop test and its write;
\* the frame came out before the final message
C30_Witness ==
  /\ caller_pc = "returned"
  /\ Len(stdout) = 3
  /\ stdout[2].kind = "frame" /\ stdout[2].glyph = 1
  /\ stdout[3].text = Chars("ok")

============================================================================
